---- MODULE Spec2Model ----
(***************************************************************************)
(* Model of services/ml-inference: the ByteTrack wrapper ObjectTracker,    *)
(* the per-class MultiClassTracker, the detector's detect, the frame loop  *)
(* of TrackingPipeline.process_video and the tracking jobs of the API.     *)
(*                                                                         *)
(* Units.  Confidences and thresholds are percentages (0.25 -> 25).        *)
(* Normalised coordinates are counted in 1/Grid of the frame, pixel        *)
(* coordinates are integers on the virtual 1920x1080 frame of              *)
(* ObjectTracker.update.                                                   *)
(*                                                                         *)
(* sv.ByteTrack is an external library whose source is not part of the     *)
(* repository; the operators Byte* model it from the Association Engine    *)
(* of spec.md (sections 3, 4.2 and 8).                                     *)
(***************************************************************************)
EXTENDS Integers, Sequences, FiniteSets, TLC

\* ------------------------------------------------------------------ bounds
MaxDets == 2
MaxCalls == 2
MaxObjDets == 1
MaxFrames == 3
MaxTrackId == 2
MaxBuffer == 1
MaxVideoFrames == 2
MaxRunFrames == 3
MaxDetectCalls == 2
MaxClock == 1
MaxJobFrames == 2

\* ------------------------------------------------------- program constants
FrameWidth == 1920
FrameHeight == 1080
PERSON_CLASS_ID == 0
SPORTS_BALL_CLASS_ID == 32
DefaultFrameRate == 30
PlayerActivation == 30
DefaultConfThreshold == 30
PlayerBuffer == 30
PlayerMatching == 80
BallActivation == 25
BallBuffer == 10
BallMatching == 70

\* Python None where an int is optional
None == 0 - 1

VARIABLES
    obj,            \* a stand-alone ObjectTracker
    objCfg,         \* the arguments it was constructed with
    objOut,         \* what its last update returned
    objDets,        \* the detections of its last update
    objOp,          \* its last operation: "init", "update" or "reset"
    objClean,       \* only empty detection lists since construction or reset
    objSeen,        \* <<born, track_id>> of every row emitted since then
    frame_number,   \* the caller's frame counter (test_tracker)
    tracker,        \* a MultiClassTracker: player_tracker and ball_tracker
    args,           \* the arguments of its last update
    handed,         \* the detections that update gave to each ObjectTracker
    result,         \* what its last update returned
    op,             \* its last operation: "init", "update" or "reset"
    wasUsed,        \* the last reset found tracks, ids and frames to clear
    trackers,       \* the MultiClassTracker objects of the service, by reference
    nextRef,        \* the reference of the next object to be built
    jobs,           \* the tracking jobs of the service, by request
    pipe,           \* a TrackingPipeline: its config and its tracker
    run,            \* the locals of its process_video call
    seen,           \* what the run's collaborators saw: the tracker's update
                    \* calls, the progress callback's calls, the caller's wish
                    \* to cancel
    detector,       \* a PlayerBallDetector and the number of detect calls and
                    \* of model.predict calls made on it
    detected,       \* the arguments and the outcome of its last detect call
    response,       \* the last answer of a detect endpoint and the request
                    \* it answers
    now,            \* the service's clock, in milliseconds
    processing_jobs,\* api.processing_jobs: job id -> status entry
    tasks,          \* by POST /track request: its job id and background task
    polled          \* the last answer of GET /track/{job_id}

apiVars == <<trackers, nextRef, jobs>>

videoVars == <<pipe, run, seen>>

detectVars == <<detector, detected, response>>

serviceVars == <<now, processing_jobs, tasks, polled>>

multiVars == <<tracker, args, handed, result, op, wasUsed>>

objVars == <<obj, objCfg, objOut, objDets, objOp, objClean, objSeen>>

Grid == FrameWidth \div 16

Min(a, b) == IF a < b THEN a ELSE b
Max(a, b) == IF a > b THEN a ELSE b

\* ------------------------------------------------------------- detections
\* detector.Detection: bbox (x, y, w, h) normalised, confidence, class_id,
\* class_name.
Detection(bbox, confidence, class_id, class_name) ==
    [bbox |-> bbox, confidence |-> confidence,
     class_id |-> class_id, class_name |-> class_name]

BoxA == <<12, 12, 12, 24>>
BoxA2 == <<13, 13, 12, 24>>
BoxB == <<60, 60, 12, 24>>

\* the detector's model.names: COCO class names
ClassName(class_id) ==
    IF class_id = PERSON_CLASS_ID THEN "person"
    ELSE IF class_id = SPORTS_BALL_CLASS_ID THEN "sports ball"
    ELSE "car"

CarDetection(bbox, confidence) == Detection(bbox, confidence, 2, ClassName(2))

\* sequences of length 0..n over S
SeqUpTo(S, n) == UNION {[1..k -> S] : k \in 0..n}

\* ------------------------------------------------ sv.ByteTrack (from spec)
ByteTrack(track_thresh, track_buffer, match_thresh, frame_rate) ==
    [track_thresh |-> track_thresh, track_buffer |-> track_buffer,
     match_thresh |-> match_thresh, frame_rate |-> frame_rate,
     frame_id |-> 0, tracks |-> <<>>, next_id |-> 1]

ByteReset(eng) == [eng EXCEPT !.frame_id = 0, !.tracks = <<>>, !.next_id = 1]

Area(b) == (b[3] - b[1]) * (b[4] - b[2])

Inter(a, b) ==
    LET w == Min(a[3], b[3]) - Max(a[1], b[1])
        h == Min(a[4], b[4]) - Max(a[2], b[2])
    IN IF w > 0 /\ h > 0 THEN w * h ELSE 0

IoUPct(a, b) ==
    LET i == Inter(a, b)
        u == Area(a) + Area(b) - i
    IN IF u = 0 THEN 0 ELSE (100 * i) \div u

\* cost = 1 - IoU; pairs whose cost is above the match threshold are excluded
Matchable(t, d, match_thresh) == 100 - IoUPct(t.xyxy, d.xyxy) <= match_thresh

\* p is preferred to q: highest IoU, then lowest track id, then input order
Better(tracks, dets, p, q) ==
    LET ip == IoUPct(tracks[p[1]].xyxy, dets[p[2]].xyxy)
        iq == IoUPct(tracks[q[1]].xyxy, dets[q[2]].xyxy)
    IN \/ ip > iq
       \/ ip = iq /\ tracks[p[1]].id < tracks[q[1]].id
       \/ ip = iq /\ tracks[p[1]].id = tracks[q[1]].id /\ p[2] <= q[2]

RECURSIVE Greedy(_, _, _, _, _)
Greedy(tracks, T, dets, D, match_thresh) ==
    LET cand == {p \in T \X D : Matchable(tracks[p[1]], dets[p[2]], match_thresh)}
    IN IF cand = {} THEN {}
       ELSE LET best == CHOOSE p \in cand :
                            \A q \in cand : Better(tracks, dets, p, q)
            IN {best} \cup Greedy(tracks, T \ {best[1]}, dets, D \ {best[2]},
                                  match_thresh)

\* the elements of a set of indices, ascending
RECURSIVE Ascending(_)
Ascending(S) ==
    IF S = {} THEN <<>>
    ELSE LET m == CHOOSE x \in S : \A y \in S : x <= y
         IN <<m>> \o Ascending(S \ {m})

ByteMatches(eng, dets) ==
    LET T == DOMAIN eng.tracks
        high == {j \in DOMAIN dets : dets[j].confidence > eng.track_thresh}
        low == DOMAIN dets \ high
        m1 == Greedy(eng.tracks, T, dets, high, eng.match_thresh)
        T2 == {i \in T : eng.tracks[i].miss = 0} \ {p[1] : p \in m1}
        m2 == Greedy(eng.tracks, T2, dets, low, eng.match_thresh)
    IN m1 \cup m2

\* the unmatched detections above the activation threshold, in input order
ByteSpawning(eng, dets, m) ==
    LET high == {j \in DOMAIN dets : dets[j].confidence > eng.track_thresh}
    IN Ascending(high \ {p[2] : p \in m})

\* the engine after one frame, given the matches m of that frame
ByteApply(eng, dets, m, fresh) ==
    LET detOf(i) == CHOOSE j \in DOMAIN dets : <<i, j>> \in m
        step(i) ==
            LET t == eng.tracks[i]
            IN IF \E j \in DOMAIN dets : <<i, j>> \in m
               THEN [t EXCEPT !.xyxy = dets[detOf(i)].xyxy,
                              !.confidence = dets[detOf(i)].confidence,
                              !.miss = 0, !.state = "Confirmed"]
               ELSE [t EXCEPT !.miss = t.miss + 1, !.state = "Lost"]
        aged == [i \in DOMAIN eng.tracks |-> step(i)]
        live(t) == t.miss <= eng.track_buffer
        spawned == [k \in DOMAIN fresh |->
                       [id |-> eng.next_id + k - 1,
                        xyxy |-> dets[fresh[k]].xyxy,
                        confidence |-> dets[fresh[k]].confidence,
                        class_id |-> dets[fresh[k]].class_id,
                        miss |-> 0, state |-> "Tentative",
                        born |-> <<eng.frame_id + 1, fresh[k]>>]]
    IN [eng EXCEPT !.frame_id = eng.frame_id + 1,
                   !.tracks = SelectSeq(aged, live) \o spawned,
                   !.next_id = eng.next_id + Len(fresh)]

ByteUpdate(eng, dets) ==
    CHOOSE e \in {ByteApply(eng, dets, m, ByteSpawning(eng, dets, m)) :
                     m \in {ByteMatches(eng, dets)}} : TRUE

\* what update_with_detections returns: one row per matched or continued track
ByteTracked(eng) ==
    [i \in DOMAIN eng.tracks |->
        [xyxy |-> eng.tracks[i].xyxy, confidence |-> eng.tracks[i].confidence,
         class_id |-> eng.tracks[i].class_id, tracker_id |-> eng.tracks[i].id]]

\* the engine after an update that raised: still valid, with the frame either
\* counted or not
ByteFailed(eng) == {eng, [eng EXCEPT !.frame_id = @ + 1]}

\* ---------------------------------------------------------- ObjectTracker
ObjectTracker_DefaultBuffer(track_activation_threshold, lost_track_buffer, minimum_matching_threshold, frame_rate) ==
    [tracker |-> ByteTrack(track_activation_threshold, PlayerBuffer,
                           minimum_matching_threshold, frame_rate),
     frame_rate |-> frame_rate,
     current_frame |-> 0]

ObjectTracker(track_activation_threshold, lost_track_buffer, minimum_matching_threshold, frame_rate) ==
    [tracker |-> ByteTrack(track_activation_threshold, lost_track_buffer,
                           minimum_matching_threshold, frame_rate),
     frame_rate |-> frame_rate,
     current_frame |-> 0]

ObjectReset_FrameOnly(self) == [self EXCEPT !.current_frame = 0]

ObjectReset(self) ==
    [self EXCEPT !.tracker = ByteReset(self.tracker), !.current_frame = 0]

CurrentFrame(self, frame_arg) ==
    IF frame_arg # None THEN frame_arg ELSE self.current_frame + 1

\* normalised (x, y, w, h) -> pixel (x1, y1, x2, y2)
ToPixels(bbox) ==
    <<(bbox[1] * FrameWidth) \div Grid, (bbox[2] * FrameHeight) \div Grid,
      ((bbox[1] + bbox[3]) * FrameWidth) \div Grid,
      ((bbox[2] + bbox[4]) * FrameHeight) \div Grid>>

\* pixel (x1, y1, x2, y2) -> normalised (x, y, w, h)
ToNormalized(xyxy) ==
    <<(xyxy[1] * Grid) \div FrameWidth, (xyxy[2] * Grid) \div FrameHeight,
      ((xyxy[3] - xyxy[1]) * Grid) \div FrameWidth,
      ((xyxy[4] - xyxy[2]) * Grid) \div FrameHeight>>

\* sv.Detections.empty() for no detections, else one row per detection
ToSvDetections(detections) ==
    [i \in DOMAIN detections |->
        [xyxy |-> ToPixels(detections[i].bbox),
         confidence |-> detections[i].confidence,
         class_id |-> detections[i].class_id]]

TrackId_ByRow(tracked, i) == <<"track", i>>

TrackId(tracked, i) == <<"track", tracked[i].tracker_id>>

ClassIdToName(class_id) ==
    IF class_id = SPORTS_BALL_CLASS_ID THEN "sports ball" ELSE "person"

TrackedDetections_FromSecondRow(self, tracked) ==
    [i \in 1..(Len(tracked) - 1) |->
        LET b == ToNormalized(tracked[i + 1].xyxy)
        IN [track_id |-> <<"track", tracked[i + 1].tracker_id>>,
            frame_number |-> self.current_frame,
            timestamp |-> <<self.current_frame, self.frame_rate>>,
            bbox |-> b,
            center |-> <<2 * b[1] + b[3], 2 * b[2] + b[4]>>,
            confidence |-> tracked[i + 1].confidence,
            class_name |-> ClassIdToName(tracked[i + 1].class_id)]]

\* the TrackedDetection list built from the rows ByteTrack returned; the
\* centre is kept in half units: 2 * (x + w / 2)
TrackedDetections(self, tracked) ==
    [i \in DOMAIN tracked |->
        LET b == ToNormalized(tracked[i].xyxy)
        IN [track_id |-> TrackId(tracked, i),
            frame_number |-> self.current_frame,
            timestamp |-> <<self.current_frame, self.frame_rate>>,
            bbox |-> b,
            center |-> <<2 * b[1] + b[3], 2 * b[2] + b[4]>>,
            confidence |-> tracked[i].confidence,
            class_name |-> ClassIdToName(tracked[i].class_id)]]

ObjectUpdate_SkipEmpty(self, detections, frame_arg) ==
    LET framed == [self EXCEPT !.current_frame = CurrentFrame(self, frame_arg)]
    IN IF detections = <<>>
       THEN [self |-> framed, out |-> <<>>]
       ELSE CHOOSE r \in
                {[self |-> [framed EXCEPT !.tracker = e],
                  out |-> TrackedDetections(framed, ByteTracked(e))] :
                    e \in {ByteUpdate(self.tracker,
                                      ToSvDetections(detections))}} : TRUE

\* ObjectTracker.update: the tracker after the call and the list it returns
ObjectUpdate(self, detections, frame_arg) ==
    LET framed == [self EXCEPT !.current_frame = CurrentFrame(self, frame_arg)]
    IN CHOOSE r \in
           {[self |-> [framed EXCEPT !.tracker = e],
             out |-> TrackedDetections(framed, ByteTracked(e))] :
               e \in {ByteUpdate(self.tracker, ToSvDetections(detections))}} :
           TRUE

ObjectUpdateFailed_Propagates(self, frame_arg, eng) ==
    [self |-> [self EXCEPT !.current_frame = CurrentFrame(self, frame_arg),
                           !.tracker = eng],
     out |-> <<>>,
     raised |-> TRUE]

\* ObjectTracker.update when update_with_detections raises and leaves the
\* engine as eng: the except branch returns an empty list
ObjectUpdateFailed(self, frame_arg, eng) ==
    [self |-> [self EXCEPT !.current_frame = CurrentFrame(self, frame_arg),
                           !.tracker = eng],
     out |-> <<>>,
     raised |-> FALSE]

\* ------------------------------------------------------ MultiClassTracker
Config(track_activation_threshold, lost_track_buffer, minimum_matching_threshold) ==
    [track_activation_threshold |-> track_activation_threshold,
     lost_track_buffer |-> lost_track_buffer,
     minimum_matching_threshold |-> minimum_matching_threshold]

\* Python None where a config dict is optional
NoConfig == [none |-> TRUE]

default_player_config == Config(PlayerActivation, PlayerBuffer, PlayerMatching)

default_ball_config_PlayerBuffer ==
    Config(BallActivation, PlayerBuffer, BallMatching)

default_ball_config_PlayerActivation ==
    Config(PlayerActivation, BallBuffer, BallMatching)

default_ball_config == Config(BallActivation, BallBuffer, BallMatching)

MultiClassTracker(frame_rate, player_config, ball_config) ==
    LET pc == IF player_config = NoConfig THEN default_player_config
              ELSE player_config
        bc == IF ball_config = NoConfig THEN default_ball_config
              ELSE ball_config
    IN [player_tracker |->
            ObjectTracker(pc.track_activation_threshold, pc.lost_track_buffer,
                          pc.minimum_matching_threshold, frame_rate),
        ball_tracker |->
            ObjectTracker(bc.track_activation_threshold, bc.lost_track_buffer,
                          bc.minimum_matching_threshold, frame_rate)]

MultiReset_PlayersOnly(self) ==
    [self EXCEPT !.player_tracker = ObjectReset(self.player_tracker)]

MultiReset(self) ==
    [player_tracker |-> ObjectReset(self.player_tracker),
     ball_tracker |-> ObjectReset(self.ball_tracker)]

IsPerson(d) == d.class_name = "person"
IsBall(d) == d.class_name = "sports ball"
IsNotBall(d) == d.class_name # "sports ball"

player_detections_NotBall(detections) == SelectSeq(detections, IsNotBall)

player_detections(detections) == SelectSeq(detections, IsPerson)

ball_detections(detections) == SelectSeq(detections, IsBall)

\* MultiClassTracker.update: the tracker after the call, the dict it returns
\* and the two lists it passed on
MultiUpdate(self, detections, frame_arg) ==
    LET tracked_players == ObjectUpdate(self.player_tracker,
                                        player_detections(detections), frame_arg)
        tracked_balls == ObjectUpdate(self.ball_tracker,
                                      ball_detections(detections), frame_arg)
    IN [self |-> [player_tracker |-> tracked_players.self,
                  ball_tracker |-> tracked_balls.self],
        out |-> [players |-> tracked_players.out, ball |-> tracked_balls.out],
        handed |-> [players |-> player_detections(detections),
                    ball |-> ball_detections(detections)]]

create_tracker(frame_rate, multi_class) ==
    IF multi_class
    THEN MultiClassTracker(frame_rate, NoConfig, NoConfig)
    ELSE ObjectTracker(PlayerActivation, PlayerBuffer, PlayerMatching,
                       frame_rate)

\* ------------------------------------------- a caller of one ObjectTracker
ObjDets ==
    {Detection(BoxA, 90, PERSON_CLASS_ID, ClassName(PERSON_CLASS_ID)),
     Detection(BoxA2, 20, PERSON_CLASS_ID, ClassName(PERSON_CLASS_ID)),
     Detection(BoxB, 27, PERSON_CLASS_ID, ClassName(PERSON_CLASS_ID))}

ObjInputs == SeqUpTo(ObjDets, MaxObjDets)

\* <<born, track_id>> of the rows of a returned list
Emitted(self, out) ==
    {<<self.tracker.tracks[i].born, out[i].track_id>> : i \in DOMAIN out}

ObjInit ==
    /\ \E th \in {BallActivation, PlayerActivation}, buf \in 1..MaxBuffer :
          /\ objCfg = [track_activation_threshold |-> th,
                       lost_track_buffer |-> buf,
                       minimum_matching_threshold |-> PlayerMatching]
          /\ obj = ObjectTracker(th, buf, PlayerMatching, DefaultFrameRate)
    /\ objOut = <<>>
    /\ objDets = <<>>
    /\ objOp = "init"
    /\ objClean = TRUE
    /\ objSeen = {}

ObjCall(detections, frame_arg) ==
    /\ obj.tracker.frame_id < MaxFrames
    /\ \E r \in {ObjectUpdate(obj, detections, frame_arg)} :
       /\ r.self.tracker.next_id <= MaxTrackId + 1
       /\ obj' = r.self
       /\ UNCHANGED objCfg
       /\ objOut' = r.out
       /\ objDets' = detections
       /\ objOp' = "update"
       /\ objClean' = (objClean /\ detections = <<>>)
       /\ objSeen' = objSeen \cup Emitted(r.self, r.out)

ObjUpdate ==
    \E detections \in ObjInputs, frame_arg \in {None, frame_number} :
        /\ ObjCall(detections, frame_arg)
        /\ frame_number' = frame_number + 1

\* an update during which the engine raises
ObjUpdateFails ==
    /\ obj.tracker.frame_id < MaxFrames
    /\ frame_number < MaxFrames
    /\ \E detections \in ObjInputs, frame_arg \in {None, frame_number},
          eng \in ByteFailed(obj.tracker) :
         \E r \in {ObjectUpdateFailed(obj, frame_arg, eng)} :
            /\ obj' = r.self
            /\ UNCHANGED <<objCfg, objSeen>>
            /\ objOut' = r.out
            /\ objDets' = detections
            /\ objOp' = IF r.raised THEN "raised" ELSE "failed"
            /\ objClean' = (objClean /\ detections = <<>>)
            /\ frame_number' = frame_number + 1

ObjResetCall ==
    /\ objOp \in {"update", "failed"}
    /\ obj' = ObjectReset(obj)
    /\ UNCHANGED objCfg
    /\ objOut' = <<>>
    /\ objDets' = <<>>
    /\ objOp' = "reset"
    /\ objClean' = TRUE
    /\ objSeen' = {}
    /\ frame_number' = 0

ObjIdle ==
    /\ objCfg = default_player_config
    /\ obj = create_tracker(DefaultFrameRate, FALSE)
    /\ objOut = <<>>
    /\ objDets = <<>>
    /\ objOp = "init"
    /\ objClean = TRUE
    /\ objSeen = {}

\* ---------------------------------------- a caller of a MultiClassTracker
\* test_tracker: create_tracker(frame_rate=30, multi_class=True), then one
\* update per frame
MultiDets ==
    {Detection(BoxA, 90, PERSON_CLASS_ID, ClassName(PERSON_CLASS_ID)),
     Detection(BoxA, 27, SPORTS_BALL_CLASS_ID, ClassName(SPORTS_BALL_CLASS_ID)),
     CarDetection(BoxB, 90)}

MultiInputs == SeqUpTo(MultiDets, MaxDets)

Used(t) == t.tracker.next_id > 1 /\ t.tracker.frame_id > 0

MultiInit ==
    /\ tracker = create_tracker(DefaultFrameRate, TRUE)
    /\ args = [detections |-> <<>>, frame_number |-> None]
    /\ handed = [players |-> <<>>, ball |-> <<>>]
    /\ result = [players |-> <<>>, ball |-> <<>>]
    /\ op = "init"
    /\ wasUsed = FALSE

MultiCall(detections, frame_arg, frame_limit) ==
    /\ tracker.player_tracker.tracker.frame_id < frame_limit
    /\ \E r \in {MultiUpdate(tracker, detections, frame_arg)} :
       /\ r.self.player_tracker.tracker.next_id <= MaxTrackId + 1
       /\ r.self.ball_tracker.tracker.next_id <= MaxTrackId + 1
       /\ tracker' = r.self
       /\ args' = [detections |-> detections, frame_number |-> frame_arg]
       /\ handed' = r.handed
       /\ result' = r.out
       /\ op' = "update"
       /\ UNCHANGED wasUsed
       /\ frame_number' = frame_number + 1

MultiUpdateCall ==
    \E detections \in MultiInputs, frame_arg \in {None, frame_number} :
        MultiCall(detections, frame_arg, MaxCalls)

MultiResetCall ==
    /\ op = "update"
    /\ tracker' = MultiReset(tracker)
    /\ wasUsed' = (Used(tracker.player_tracker) /\ Used(tracker.ball_tracker))
    /\ op' = "reset"
    /\ frame_number' = 0
    /\ UNCHANGED <<args, handed, result>>

\* the same caller on a ball that is seen and then lost for many frames
LongDets ==
    {Detection(BoxA, 27, SPORTS_BALL_CLASS_ID, ClassName(SPORTS_BALL_CLASS_ID)),
     Detection(BoxA2, 20, SPORTS_BALL_CLASS_ID, ClassName(SPORTS_BALL_CLASS_ID))}

LongInputs == SeqUpTo(LongDets, MaxObjDets)

LongUpdateCall ==
    \E detections \in LongInputs :
        MultiCall(detections, frame_number, BallBuffer + MaxFrames)

\* ------------------------------------------------- pipeline and API jobs
\* pipeline.PipelineConfig with the fields process_tracking_job sets
PipelineConfig(frame_rate, skip_frames, max_frames) ==
    [frame_rate |-> frame_rate,
     track_activation_threshold |-> 30,
     lost_track_buffer |-> 30,
     skip_frames |-> skip_frames,
     max_frames |-> max_frames]

\* TrackingPipeline.__init__: builds a new tracker object at reference ref
TrackingPipeline(heap, ref, config) ==
    [heap |-> heap @@ (ref :> create_tracker(config.frame_rate, TRUE)),
     pipeline |-> [config |-> config, tracker |-> ref]]

\* the objects lifespan builds at startup: the module-level tracker and the
\* module-level pipeline with its own tracker
GlobalTrackerRef == 1
GlobalPipelineRef == 2

GlobalPipeline ==
    [config |-> PipelineConfig(DefaultFrameRate, 0, None),
     tracker |-> GlobalPipelineRef]

NoPipeline ==
    [config |-> PipelineConfig(DefaultFrameRate, 0, None), tracker |-> 0]

job_pipeline_Global(heap, ref, config) ==
    [heap |-> heap, pipeline |-> GlobalPipeline]

\* process_tracking_job: job_pipeline = TrackingPipeline(config)
job_pipeline(heap, ref, config) == TrackingPipeline(heap, ref, config)

Jobs == {"job_a", "job_b"}

\* api.TrackingRequest: frameRate, skipFrames, maxFrames
TrackingRequest(frameRate, skipFrames, maxFrames) ==
    [frameRate |-> frameRate, skipFrames |-> skipFrames,
     maxFrames |-> maxFrames]

JobRequests ==
    {TrackingRequest(DefaultFrameRate, 0, None),
     TrackingRequest(DefaultFrameRate, 1, None)}

\* what the detector may return for a frame
JobInputs ==
    {<<>>,
     <<Detection(BoxA, 90, PERSON_CLASS_ID, ClassName(PERSON_CLASS_ID))>>,
     <<Detection(BoxB, 90, PERSON_CLASS_ID, ClassName(PERSON_CLASS_ID)),
       Detection(BoxA, 27, SPORTS_BALL_CLASS_ID,
                 ClassName(SPORTS_BALL_CLASS_ID))>>}

IdleJob ==
    [pc |-> "idle",
     request |-> TrackingRequest(DefaultFrameRate, 0, None),
     job_pipeline |-> NoPipeline,
     video_frames |-> 0,
     total_frames |-> 0,
     frame_number |-> 0,
     processed_frames |-> 0,
     fed |-> <<>>]

ApiInit ==
    /\ trackers = (GlobalTrackerRef :> create_tracker(DefaultFrameRate, TRUE))
                   @@ (GlobalPipelineRef :>
                          create_tracker(GlobalPipeline.config.frame_rate, TRUE))
    /\ nextRef = GlobalPipelineRef + 1
    /\ jobs = [j \in Jobs |-> IdleJob]

\* POST /track: the upload is stored and the background task is scheduled
TrackVideo(j) ==
    /\ jobs[j].pc = "idle"
    /\ \E request \in JobRequests, video_frames \in 0..MaxVideoFrames :
          jobs' = [jobs EXCEPT ![j] = [@ EXCEPT !.pc = "queued",
                                                !.request = request,
                                                !.video_frames = video_frames]]
    /\ UNCHANGED <<trackers, nextRef>>

\* process_tracking_job up to the call of process_video
JobBuild(j) ==
    /\ jobs[j].pc = "queued"
    /\ LET request == jobs[j].request
           config == PipelineConfig(request.frameRate, request.skipFrames,
                                    request.maxFrames)
           built == job_pipeline(trackers, nextRef, config)
       IN /\ trackers' = built.heap
          /\ nextRef' = nextRef + 1
          /\ jobs' = [jobs EXCEPT ![j] = [@ EXCEPT !.pc = "built",
                                                    !.job_pipeline = built.pipeline]]

\* process_video up to its frame loop: frame count, ceiling, tracker reset
JobOpen(j) ==
    /\ jobs[j].pc = "built"
    /\ LET job == jobs[j]
           max_frames == job.job_pipeline.config.max_frames
           total_frames == IF max_frames # None /\ max_frames # 0
                           THEN Min(job.video_frames, max_frames)
                           ELSE job.video_frames
           ref == job.job_pipeline.tracker
       IN /\ trackers' = [trackers EXCEPT ![ref] = MultiReset(trackers[ref])]
          /\ jobs' = [jobs EXCEPT ![j] = [@ EXCEPT !.pc = "loop",
                                                    !.total_frames = total_frames,
                                                    !.frame_number = 0,
                                                    !.processed_frames = 0]]
    /\ UNCHANGED nextRef

\* one pass of the frame loop that reads a frame and skips it
JobSkipFrame(j) ==
    /\ jobs[j].pc = "loop"
    /\ LET job == jobs[j]
           skip_frames == job.job_pipeline.config.skip_frames
       IN /\ job.processed_frames < job.total_frames
          /\ job.frame_number < job.video_frames
          /\ skip_frames > 0
          /\ job.frame_number % (skip_frames + 1) # 0
          /\ jobs' = [jobs EXCEPT ![j] =
                         [@ EXCEPT !.frame_number = job.frame_number + 1]]
    /\ UNCHANGED <<trackers, nextRef>>

\* one pass of the frame loop that reads a frame, detects and tracks
JobFrame(j) ==
    /\ jobs[j].pc = "loop"
    /\ LET job == jobs[j]
           skip_frames == job.job_pipeline.config.skip_frames
           ref == job.job_pipeline.tracker
       IN /\ job.processed_frames < job.total_frames
          /\ job.frame_number < job.video_frames
          /\ ~(skip_frames > 0 /\ job.frame_number % (skip_frames + 1) # 0)
          /\ \E detections \in JobInputs :
               \E r \in {MultiUpdate(trackers[ref], detections,
                                      job.frame_number)} :
                  /\ trackers' = [trackers EXCEPT ![ref] = r.self]
                  /\ jobs' = [jobs EXCEPT ![j] =
                        [@ EXCEPT !.frame_number = job.frame_number + 1,
                                  !.processed_frames = job.processed_frames + 1,
                                  !.fed = Append(job.fed,
                                      [detections |-> detections,
                                       frame_number |-> job.frame_number,
                                       out |-> r.out])]]
    /\ UNCHANGED nextRef

\* the frame loop ends: the ceiling is reached or no frame is left
JobEnd(j) ==
    /\ jobs[j].pc = "loop"
    /\ \/ jobs[j].processed_frames >= jobs[j].total_frames
       \/ jobs[j].frame_number >= jobs[j].video_frames
    /\ jobs' = [jobs EXCEPT ![j] = [@ EXCEPT !.pc = "done"]]
    /\ UNCHANGED <<trackers, nextRef>>


\* ------------------------------------------------- one process_video run
\* PipelineConfig(...) with keyword arguments for the tracking settings
VideoConfig(skip_frames, max_frames, track_activation_threshold, lost_track_buffer) ==
    [PipelineConfig(DefaultFrameRate, skip_frames, max_frames) EXCEPT
        !.track_activation_threshold = track_activation_threshold,
        !.lost_track_buffer = lost_track_buffer]

VideoConfigs ==
    {VideoConfig(s, m, PlayerActivation, PlayerBuffer) :
        s \in {0, 1}, m \in {None} \cup (0..2)}
    \cup {VideoConfig(0, None, 50, 5)}

\* the pipeline object TrackingPipeline(config) returns
NewPipeline(config) ==
    LET built == TrackingPipeline(<<>>, GlobalTrackerRef, config)
    IN [config |-> built.pipeline.config,
        tracker |-> built.heap[built.pipeline.tracker]]

NoResult == [none |-> TRUE]

IdleRun ==
    [pc |-> "idle",
     frame_count |-> 0,        \* cap.get(cv2.CAP_PROP_FRAME_COUNT)
     video_frames |-> 0,       \* the frames cap.read() can deliver
     position |-> 0,           \* the frames cap.read() has delivered
     total_frames |-> 0,
     frame_number |-> 0,
     processed_frames |-> 0,
     tracks_dict |-> <<>>,     \* in insertion order: [trackId, frames]
     ball_data |-> <<>>,       \* the list ball_detections
     result |-> NoResult]

NothingSeen ==
    [updates |-> <<>>, progress |-> <<>>, cancel |-> FALSE, detects |-> <<>>]

VideoIdle ==
    /\ pipe = NewPipeline(PipelineConfig(DefaultFrameRate, 0, None))
    /\ run = IdleRun
    /\ seen = NothingSeen

VideoInit ==
    /\ \E config \in VideoConfigs : pipe = NewPipeline(config)
    /\ run = IdleRun
    /\ seen = NothingSeen

\* total_frames: the reported frame count, limited by a truthy max_frames
TotalFrames(config, frame_count) ==
    IF config.max_frames # None /\ config.max_frames # 0
    THEN Min(frame_count, config.max_frames)
    ELSE frame_count

\* the frame-skip test of the loop
Skipped(config, frame_no) ==
    config.skip_frames > 0 /\ frame_no % (config.skip_frames + 1) # 0

Advance_CountOnly(r, processed) ==
    [r EXCEPT !.position = @ + 1,
              !.frame_number = IF processed THEN @ ELSE @ + 1,
              !.processed_frames = IF processed THEN @ + 1 ELSE @]

\* the counters after a pass of the loop that skipped or processed a frame
Advance(r, processed) ==
    [r EXCEPT !.position = @ + 1,
              !.frame_number = @ + 1,
              !.processed_frames = IF processed THEN @ + 1 ELSE @]

FrameData(tracked_det) ==
    [frameNumber |-> tracked_det.frame_number,
     timestamp |-> tracked_det.timestamp,
     bbox |-> [x |-> tracked_det.bbox[1], y |-> tracked_det.bbox[2],
               w |-> tracked_det.bbox[3], h |-> tracked_det.bbox[4]],
     center |-> [x |-> tracked_det.center[1], y |-> tracked_det.center[2]],
     confidence |-> tracked_det.confidence]

BallData(tracked_ball) ==
    [frameNumber |-> tracked_ball.frame_number,
     timestamp |-> tracked_ball.timestamp,
     position |-> [x |-> tracked_ball.center[1], y |-> tracked_ball.center[2]],
     confidence |-> tracked_ball.confidence,
     visible |-> TRUE]

HasKey(tracks_dict, track_id) ==
    \E i \in DOMAIN tracks_dict : tracks_dict[i].trackId = track_id

AppendFrame_Replace(frames, frame_data) == <<frame_data>>

\* tracks_dict[track_id].append(frame_data)
AppendFrame(frames, frame_data) == Append(frames, frame_data)

\* tracks_dict after the loop over tracked_result["players"]
RECURSIVE Accumulate(_, _)
Accumulate(tracks_dict, players) ==
    IF players = <<>> THEN tracks_dict
    ELSE LET tracked_det == Head(players)
             track_id == tracked_det.track_id
             keyed == IF HasKey(tracks_dict, track_id) THEN tracks_dict
                      ELSE Append(tracks_dict,
                                  [trackId |-> track_id, frames |-> <<>>])
             appended ==
                 [i \in DOMAIN keyed |->
                     IF keyed[i].trackId = track_id
                     THEN [keyed[i] EXCEPT
                              !.frames = AppendFrame(@, FrameData(tracked_det))]
                     ELSE keyed[i]]
         IN Accumulate(appended, Tail(players))

\* ball_detections after the loop over tracked_result["ball"]
RecordBalls(ball_list, balls) ==
    ball_list \o [i \in DOMAIN balls |-> BallData(balls[i])]

HasFrames(entry) == entry.frames # <<>>

\* the PipelineResult built after the loop
PipelineResult(r) ==
    LET tracks == SelectSeq(r.tracks_dict, HasFrames)
    IN [tracks |-> tracks,
        ball |-> r.ball_data,
        metadata |-> [totalFrames |-> r.total_frames,
                      processedFrames |-> r.processed_frames,
                      tracksCount |-> Len(tracks),
                      ballDetectionsCount |-> Len(r.ball_data)]]

Report_FrameNumber(progress, r) ==
    Append(progress, <<r.frame_number, r.total_frames>>)

\* the calls of progress_callback after the call that ends a processed pass
Report(progress, r) ==
    Append(progress, <<r.processed_frames, r.total_frames>>)

\* the loop condition and the read at the top of a pass
LoopReads(r) ==
    r.processed_frames < r.total_frames /\ r.position < r.video_frames

\* process_video up to its frame loop
VideoOpen ==
    /\ run.pc = "idle"
    /\ \E frame_count \in 0..MaxRunFrames, video_frames \in 0..MaxRunFrames :
          run' = [run EXCEPT !.pc = "loop",
                             !.frame_count = frame_count,
                             !.video_frames = video_frames,
                             !.total_frames =
                                 TotalFrames(pipe.config, frame_count)]
    /\ pipe' = [pipe EXCEPT !.tracker = MultiReset(pipe.tracker)]
    /\ UNCHANGED seen

DetectedOn_EveryRead(config, frame_no) == TRUE

\* the pass over this frame reaches the call of detector.detect
DetectedOn(config, frame_no) == ~Skipped(config, frame_no)

\* the detector's calls after the call on the frame just read
Detects(r, failed) ==
    Append(seen.detects, [index |-> r.position,
                          updates_before |-> Len(seen.updates),
                          failed |-> failed])

\* a pass of the loop that reads a frame and skips it
VideoSkip ==
    /\ run.pc = "loop"
    /\ LoopReads(run)
    /\ Skipped(pipe.config, run.frame_number)
    /\ run' = Advance(run, FALSE)
    /\ seen' = IF DetectedOn(pipe.config, run.frame_number)
               THEN [seen EXCEPT !.detects = Detects(run, FALSE)]
               ELSE seen
    /\ UNCHANGED pipe

\* a pass of the loop whose detector.detect raises: process_video raises
VideoDetectFails ==
    /\ run.pc = "loop"
    /\ LoopReads(run)
    /\ DetectedOn(pipe.config, run.frame_number)
    /\ run' = [run EXCEPT !.pc = "raised", !.position = @ + 1]
    /\ seen' = [seen EXCEPT !.detects = Detects(run, TRUE)]
    /\ UNCHANGED pipe

\* a pass of the loop that reads a frame, detects, tracks and reports
VideoFrame ==
    /\ run.pc = "loop"
    /\ LoopReads(run)
    /\ ~Skipped(pipe.config, run.frame_number)
    /\ DetectedOn(pipe.config, run.frame_number)
    /\ \E detections \in JobInputs :
         \E r \in {MultiUpdate(pipe.tracker, detections, run.frame_number)} :
            \E after \in {Advance(
                   [run EXCEPT
                       !.tracks_dict = Accumulate(@, r.out.players),
                       !.ball_data = RecordBalls(@, r.out.ball)],
                   TRUE)} :
               /\ pipe' = [pipe EXCEPT !.tracker = r.self]
               /\ run' = after
               /\ seen' = [seen EXCEPT
                     !.detects = Detects(run, FALSE),
                     !.updates = Append(@, [index |-> run.position,
                                            frame_number |-> run.frame_number,
                                            cancelled |-> seen.cancel,
                                            out |-> r.out]),
                     !.progress = Report(@, after)]

\* the loop ends and the result is built
VideoClose ==
    /\ run.pc = "loop"
    /\ ~LoopReads(run)
    /\ run' = [run EXCEPT !.pc = "done", !.result = PipelineResult(run)]
    /\ UNCHANGED <<pipe, seen>>

\* ----------------------------------------------------- PlayerBallDetector
\* create_detector: the detector with its default confidence threshold
create_detector(conf_threshold) ==
    [conf_threshold |-> conf_threshold, detect_calls |-> 0, predict_calls |-> 0]

\* what a caller may pass as frame: None, an object that is not a numpy
\* array, or a numpy array of some shape
NoFrame == [kind |-> "None", shape |-> <<>>]
ListFrame == [kind |-> "list", shape |-> <<4, 4>>]
ArrayFrame(shape) == [kind |-> "ndarray", shape |-> shape]

Frames ==
    {NoFrame, ListFrame, ArrayFrame(<<>>), ArrayFrame(<<4>>),
     ArrayFrame(<<4, 4>>), ArrayFrame(<<4, 4, 3>>)}

\* the classes detect asks the model for
Classes(detect_players, detect_ball) ==
    (IF detect_players THEN <<PERSON_CLASS_ID>> ELSE <<>>)
        \o (IF detect_ball THEN <<SPORTS_BALL_CLASS_ID>> ELSE <<>>)

NoPredict == [called |-> FALSE, conf |-> None, classes |-> <<>>]

\* PlayerBallDetector.detect; boxes is what model.predict returns if called
Detect(self, frame, detect_players, detect_ball, conf_threshold, boxes) ==
    LET classes == Classes(detect_players, detect_ball)
        effective_conf == IF conf_threshold # None THEN conf_threshold
                          ELSE self.conf_threshold
    IN IF classes = <<>>
       THEN [outcome |-> "returned", detections |-> <<>>,
             predict |-> NoPredict]
       ELSE IF frame.kind = "None" \/ frame.kind # "ndarray"
       THEN [outcome |-> "ValueError", detections |-> <<>>,
             predict |-> NoPredict]
       ELSE IF Len(frame.shape) < 2
       THEN [outcome |-> "ValueError", detections |-> <<>>,
             predict |-> NoPredict]
       ELSE [outcome |-> "returned", detections |-> boxes,
             predict |-> [called |-> TRUE, conf |-> effective_conf,
                          classes |-> classes]]

NothingDetected ==
    [frame |-> NoFrame, detect_players |-> TRUE, detect_ball |-> TRUE,
     conf_threshold |-> None, outcome |-> "none", detections |-> <<>>,
     predict |-> NoPredict]

\* no detect endpoint has answered yet
NoResponse ==
    [endpoint |-> "none", image |-> "encoded", before |-> None, code |-> 0,
     detail |-> "", outcome |-> "none", detections |-> <<>>]

DetectIdle ==
    /\ detector = create_detector(PlayerActivation)
    /\ detected = NothingDetected
    /\ response = NoResponse

DetectInit ==
    /\ \E conf_threshold \in {PlayerActivation, 50} :
          detector = create_detector(conf_threshold)
    /\ detected = NothingDetected
    /\ response = NoResponse

\* one call of detector.detect
DetectCall ==
    /\ detector.detect_calls < MaxDetectCalls
    /\ \E frame \in Frames, detect_players \in BOOLEAN, detect_ball \in BOOLEAN,
          conf_threshold \in {None, 50}, boxes \in JobInputs :
         \E r \in {Detect(detector, frame, detect_players, detect_ball,
                          conf_threshold, boxes)} :
            /\ detector' = [detector EXCEPT
                  !.detect_calls = @ + 1,
                  !.predict_calls = IF r.predict.called THEN @ + 1 ELSE @]
            /\ detected' = [frame |-> frame, detect_players |-> detect_players,
                            detect_ball |-> detect_ball,
                            conf_threshold |-> conf_threshold,
                            outcome |-> r.outcome,
                            detections |-> r.detections,
                            predict |-> r.predict]
    /\ UNCHANGED response

\* ---------------------------------------- the detect endpoints of api.py
\* what a request carries as its image: an encoded image, bytes that are no
\* image, raw RGB bytes of width * height * 3, and, as frameData, a string
\* that is not base64
UploadedImages == {"encoded", "garbage", "raw_rgb"}

JsonImages == UploadedImages \cup {"not_base64"}

\* conf_threshold / confThreshold of a request, in percent
RequestThresholds == {DefaultConfThreshold, 50}

\* cv2.imdecode(nparr, cv2.IMREAD_COLOR): None unless the bytes are an image
Imdecode(image) ==
    IF image = "encoded" THEN ArrayFrame(<<4, 4, 3>>) ELSE NoFrame

\* the frame of a JSON endpoint: raw RGB bytes of the stated size are
\* reshaped when imdecode gave None
JsonFrame(image) ==
    IF Imdecode(image) = NoFrame /\ image = "raw_rgb"
    THEN ArrayFrame(<<4, 4, 3>>)
    ELSE Imdecode(image)

\* detect with a model.predict that may raise
DetectOrRaise(self, frame, detect_players, detect_ball, conf_threshold, boxes, predict_fails) ==
    LET r == Detect(self, frame, detect_players, detect_ball, conf_threshold,
                    boxes)
    IN IF r.predict.called /\ predict_fails
       THEN [r EXCEPT !.outcome = "RuntimeError", !.detections = <<>>]
       ELSE r

\* the detector after a detect call with outcome r
Called(self, r) ==
    [self EXCEPT !.detect_calls = @ + 1,
                 !.predict_calls = IF r.predict.called THEN @ + 1 ELSE @]

\* except Exception as e: raise HTTPException(500, f"Detection failed: ...");
\* the HTTPException raised inside the try block is an Exception too
DetectionFailed(self, outcome, exc) ==
    [detector |-> self, code |-> 500, detail |-> "Detection failed: " \o exc,
     outcome |-> outcome, detections |-> <<>>]

\* detect_frame, the handler of POST /detect
detect_frame(self, image, conf_threshold, detect_players, detect_ball, boxes, predict_fails) ==
    LET frame == Imdecode(image)
        original_threshold == self.conf_threshold
        updated == [self EXCEPT !.conf_threshold = conf_threshold]
        r == DetectOrRaise(updated, frame, detect_players, detect_ball, None,
                           boxes, predict_fails)
    IN IF frame = NoFrame
       THEN DetectionFailed(self, "none", "400: Invalid image format")
       ELSE IF r.outcome # "returned"
       THEN DetectionFailed(Called(updated, r), r.outcome, r.outcome)
       ELSE [detector |-> [Called(updated, r) EXCEPT
                              !.conf_threshold = original_threshold],
             code |-> 200, detail |-> "", outcome |-> r.outcome,
             detections |-> r.detections]

\* detect_players_json and detect_ball_json, the handlers of
\* POST /detect/players and POST /detect/ball, which differ in the flags
detect_json(self, image, confThreshold, detect_players, detect_ball, boxes, predict_fails) ==
    LET frame == JsonFrame(image)
        r == DetectOrRaise(self, frame, detect_players, detect_ball,
                           confThreshold, boxes, predict_fails)
    IN IF image = "not_base64"
       THEN DetectionFailed(self, "none", "Incorrect padding")
       ELSE IF frame = NoFrame
       THEN DetectionFailed(self, "none", "400: Invalid image data")
       ELSE IF r.outcome # "returned"
       THEN DetectionFailed(Called(self, r), r.outcome, r.outcome)
       ELSE [detector |-> Called(self, r), code |-> 200, detail |-> "",
             outcome |-> r.outcome, detections |-> r.detections]

detect_players_json(self, image, confThreshold, boxes, predict_fails) ==
    detect_json(self, image, confThreshold, TRUE, FALSE, boxes, predict_fails)

detect_ball_json(self, image, confThreshold, boxes, predict_fails) ==
    detect_json(self, image, confThreshold, FALSE, TRUE, boxes, predict_fails)

\* the handler's answer a is sent and the shared detector is as it left it
Answer(endpoint, image, a) ==
    /\ detector' = a.detector
    /\ response' = [endpoint |-> endpoint, image |-> image,
                    before |-> detector.conf_threshold, code |-> a.code,
                    detail |-> a.detail, outcome |-> a.outcome,
                    detections |-> a.detections]
    /\ UNCHANGED detected

\* POST /detect
PostDetect ==
    /\ detector.detect_calls < MaxDetectCalls
    /\ \E image \in UploadedImages, conf_threshold \in RequestThresholds,
          detect_players \in BOOLEAN, detect_ball \in BOOLEAN,
          boxes \in JobInputs, predict_fails \in BOOLEAN :
         Answer("/detect", image,
                detect_frame(detector, image, conf_threshold, detect_players,
                             detect_ball, boxes, predict_fails))

\* POST /detect/players
PostDetectPlayers ==
    /\ detector.detect_calls < MaxDetectCalls
    /\ \E image \in JsonImages, confThreshold \in RequestThresholds,
          boxes \in JobInputs, predict_fails \in BOOLEAN :
         Answer("/detect/players", image,
                detect_players_json(detector, image, confThreshold, boxes,
                                    predict_fails))

\* POST /detect/ball
PostDetectBall ==
    /\ detector.detect_calls < MaxDetectCalls
    /\ \E image \in JsonImages, confThreshold \in RequestThresholds,
          boxes \in JobInputs, predict_fails \in BOOLEAN :
         Answer("/detect/ball", image,
                detect_ball_json(detector, image, confThreshold, boxes,
                                 predict_fails))

\* ------------------------------------------- the /track service of api.py
\* job_id = f"job_{int(time.time() * 1000)}"
JobId(t) == <<"job", t>>

\* the entry track_video stores for a new job; progress is kept as the pair
\* (current, total) it is computed from
NewEntry ==
    [status |-> "processing", progress |-> <<0, 1>>,
     result |-> NoResult, error |-> "None"]

\* the requests POST /track accepts, and what it is uploaded with: a file cv2
\* can open, with some frames, or one it cannot
ServiceRequests ==
    {TrackingRequest(DefaultFrameRate, 0, 1),
     TrackingRequest(DefaultFrameRate, 1, None),
     TrackingRequest(DefaultFrameRate, 0, 0)}

Uploads ==
    {[opens |-> TRUE, frames |-> n] : n \in 0..MaxJobFrames}
    \cup {[opens |-> FALSE, frames |-> 0]}

IdleTask ==
    [pc |-> "idle", job_id |-> JobId(0),
     request |-> TrackingRequest(DefaultFrameRate, 0, None),
     upload |-> [opens |-> FALSE, frames |-> 0],
     config |-> PipelineConfig(DefaultFrameRate, 0, None),
     run |-> IdleRun, exc |-> "none"]

\* the answer of GET /track/{job_id}: the HTTP status, the job's status and
\* whether result and error are null
NotPolled ==
    [code |-> 0, status |-> "none", result_null |-> TRUE, error_null |-> TRUE]

\* the task's locals once process_tracking_job has returned
Ended(task) ==
    [IdleTask EXCEPT !.pc = "done", !.job_id = task.job_id, !.exc = task.exc]

ServiceInit ==
    /\ now = 0
    /\ processing_jobs = <<>>
    /\ tasks = [r \in Jobs |-> IdleTask]
    /\ polled = NotPolled

Catches_ValueErrorOnly(exc) == exc = "ValueError"

\* except Exception in process_tracking_job
Catches(exc) == TRUE

Entry(r) == processing_jobs[tasks[r].job_id]

\* processing_jobs after processing_jobs[job_id][key] = value
SetEntry(job_id, key, value) ==
    [processing_jobs EXCEPT ![job_id] = [@ EXCEPT ![key] = value]]

\* time passes
Tick ==
    /\ now < MaxClock
    /\ now' = now + 1
    /\ UNCHANGED <<processing_jobs, tasks, polled>>

\* POST /track: the job id is taken from the clock, the entry is stored and
\* the background task is scheduled
PostTrack(r) ==
    /\ tasks[r].pc = "idle"
    /\ \E request \in ServiceRequests, upload \in Uploads :
          /\ processing_jobs' = (JobId(now) :> NewEntry) @@ processing_jobs
          /\ tasks' = [tasks EXCEPT ![r] =
                [@ EXCEPT !.pc = "scheduled", !.job_id = JobId(now),
                          !.request = request, !.upload = upload]]
    /\ UNCHANGED <<now, polled>>

\* process_tracking_job up to the frame loop of process_video: the config
\* and the pipeline are built and the video is opened
TaskOpen(r) ==
    /\ tasks[r].pc = "scheduled"
    /\ LET task == tasks[r]
           config == PipelineConfig(task.request.frameRate,
                                    task.request.skipFrames,
                                    task.request.maxFrames)
       IN tasks' = [tasks EXCEPT ![r] =
             IF task.upload.opens
             THEN [@ EXCEPT !.pc = "loop", !.config = config,
                            !.run = [IdleRun EXCEPT
                                !.pc = "loop",
                                !.frame_count = task.upload.frames,
                                !.video_frames = task.upload.frames,
                                !.total_frames =
                                    TotalFrames(config, task.upload.frames)]]
             ELSE [@ EXCEPT !.pc = "raised", !.config = config,
                            !.exc = "ValueError"]]
    /\ UNCHANGED <<now, processing_jobs, polled>>

\* a pass of the frame loop that skips the frame it read
TaskSkip(r) ==
    /\ tasks[r].pc = "loop"
    /\ LoopReads(tasks[r].run)
    /\ Skipped(tasks[r].config, tasks[r].run.frame_number)
    /\ tasks' = [tasks EXCEPT ![r] = [@ EXCEPT !.run = Advance(@, FALSE)]]
    /\ UNCHANGED <<now, processing_jobs, polled>>

\* a pass of the frame loop that processes the frame it read and calls
\* progress_callback, which writes the job's progress
TaskFrame(r) ==
    /\ tasks[r].pc = "loop"
    /\ LoopReads(tasks[r].run)
    /\ DetectedOn(tasks[r].config, tasks[r].run.frame_number)
    /\ \E after \in {Advance(tasks[r].run, TRUE)} :
          /\ tasks' = [tasks EXCEPT ![r] = [@ EXCEPT !.run = after]]
          /\ processing_jobs' =
                SetEntry(tasks[r].job_id, "progress",
                         IF after.total_frames > 0
                         THEN <<after.processed_frames, after.total_frames>>
                         ELSE <<0, 1>>)
    /\ UNCHANGED <<now, polled>>

\* a pass of the frame loop whose detection raises
TaskFrameFails(r) ==
    /\ tasks[r].pc = "loop"
    /\ LoopReads(tasks[r].run)
    /\ DetectedOn(tasks[r].config, tasks[r].run.frame_number)
    /\ tasks' = [tasks EXCEPT ![r] =
                    [@ EXCEPT !.pc = "raised", !.exc = "RuntimeError"]]
    /\ UNCHANGED <<now, processing_jobs, polled>>

\* the frame loop ends, process_video returns and result_data is built
TaskReturn(r) ==
    /\ tasks[r].pc = "loop"
    /\ ~LoopReads(tasks[r].run)
    /\ tasks' = [tasks EXCEPT ![r] =
          [@ EXCEPT !.pc = "returned",
                    !.run = [@ EXCEPT
                                !.pc = "done",
                                !.result = PipelineResult(tasks[r].run)]]]
    /\ UNCHANGED <<now, processing_jobs, polled>>

\* processing_jobs[job_id]["status"] = "completed"
TaskCompleted(r) ==
    /\ tasks[r].pc = "returned"
    /\ processing_jobs' = SetEntry(tasks[r].job_id, "status", "completed")
    /\ tasks' = [tasks EXCEPT ![r] = [@ EXCEPT !.pc = "completed"]]
    /\ UNCHANGED <<now, polled>>

\* progress = 1.0 and result = result_data, then the cleanup of finally
TaskResult(r) ==
    /\ tasks[r].pc = "completed"
    /\ processing_jobs' =
          [processing_jobs EXCEPT ![tasks[r].job_id] =
              [@ EXCEPT !.progress = <<1, 1>>,
                        !.result = tasks[r].run.result]]
    /\ tasks' = [tasks EXCEPT ![r] = Ended(@)]
    /\ UNCHANGED <<now, polled>>

\* the except branch: processing_jobs[job_id]["status"] = "error"; an
\* exception it does not catch ends the task
TaskError(r) ==
    /\ tasks[r].pc = "raised"
    /\ IF Catches(tasks[r].exc)
       THEN /\ processing_jobs' = SetEntry(tasks[r].job_id, "status", "error")
            /\ tasks' = [tasks EXCEPT ![r] = [@ EXCEPT !.pc = "caught"]]
       ELSE /\ tasks' = [tasks EXCEPT ![r] = Ended(@)]
            /\ UNCHANGED processing_jobs
    /\ UNCHANGED <<now, polled>>

\* error = str(e), then the cleanup of finally
TaskErrorText(r) ==
    /\ tasks[r].pc = "caught"
    /\ processing_jobs' = SetEntry(tasks[r].job_id, "error", tasks[r].exc)
    /\ tasks' = [tasks EXCEPT ![r] = Ended(@)]
    /\ UNCHANGED <<now, polled>>

\* GET /track/{job_id}
GetTrackingStatus ==
    /\ \E t \in 0..MaxClock :
          polled' = IF JobId(t) \in DOMAIN processing_jobs
                    THEN [code |-> 200,
                          status |-> processing_jobs[JobId(t)].status,
                          result_null |->
                              processing_jobs[JobId(t)].result = NoResult,
                          error_null |->
                              processing_jobs[JobId(t)].error = "None"]
                    ELSE [NotPolled EXCEPT !.code = 404]
    /\ UNCHANGED <<now, processing_jobs, tasks>>

\* the steps of the background task of request r
TaskStep(r) ==
    \/ TaskOpen(r)
    \/ TaskSkip(r)
    \/ TaskFrame(r)
    \/ TaskFrameFails(r)
    \/ TaskReturn(r)
    \/ TaskCompleted(r)
    \/ TaskResult(r)
    \/ TaskError(r)
    \/ TaskErrorText(r)

vars ==
    <<objVars, multiVars, apiVars, frame_number, videoVars, detectVars,
      serviceVars>>

Init == ObjIdle /\ MultiInit /\ ApiInit /\ VideoIdle /\ DetectIdle /\ ServiceInit /\ frame_number = 0

Next ==
    \/ MultiUpdateCall /\ UNCHANGED <<objVars, apiVars, videoVars, detectVars, serviceVars>>
    \/ MultiResetCall /\ UNCHANGED <<objVars, apiVars, videoVars, detectVars, serviceVars>>

Spec == Init /\ [][Next]_vars

NextLong == LongUpdateCall /\ UNCHANGED <<objVars, apiVars, videoVars, detectVars, serviceVars>>

SpecLong == Init /\ [][NextLong]_vars

InitObj == ObjInit /\ MultiInit /\ ApiInit /\ VideoIdle /\ DetectIdle /\ ServiceInit /\ frame_number = 0

NextObj ==
    \/ ObjUpdate /\ UNCHANGED <<multiVars, apiVars, videoVars, detectVars, serviceVars>>
    \/ ObjResetCall /\ UNCHANGED <<multiVars, apiVars, videoVars, detectVars, serviceVars>>

SpecObj == InitObj /\ [][NextObj]_vars

NextFail ==
    \/ NextObj
    \/ ObjUpdateFails /\ UNCHANGED <<multiVars, apiVars, videoVars, detectVars, serviceVars>>

SpecFail == InitObj /\ [][NextFail]_vars

NextJobs ==
    \E j \in Jobs :
        /\ \/ TrackVideo(j)
           \/ JobBuild(j)
           \/ JobOpen(j)
           \/ JobSkipFrame(j)
           \/ JobFrame(j)
           \/ JobEnd(j)
        /\ UNCHANGED <<objVars, multiVars, frame_number, videoVars, detectVars, serviceVars>>

SpecJobs == Init /\ [][NextJobs]_vars

\* the caller of a running process_video wishes to cancel it; neither
\* process_video nor process_tracking_job takes or reads such a request
RequestCancel ==
    /\ run.pc = "loop"
    /\ ~seen.cancel
    /\ seen' = [seen EXCEPT !.cancel = TRUE]
    /\ UNCHANGED <<pipe, run>>

InitVideo ==
    ObjIdle /\ MultiInit /\ ApiInit /\ VideoInit /\ DetectIdle /\ ServiceInit /\ frame_number = 0

NextVideo ==
    /\ \/ VideoOpen
       \/ VideoSkip
       \/ VideoFrame
       \/ VideoDetectFails
       \/ VideoClose
       \/ RequestCancel
    /\ UNCHANGED <<objVars, multiVars, apiVars, frame_number, detectVars, serviceVars>>

SpecVideo == InitVideo /\ [][NextVideo]_vars

InitDetect ==
    ObjIdle /\ MultiInit /\ ApiInit /\ VideoIdle /\ DetectInit /\ ServiceInit
    /\ frame_number = 0

NextDetect ==
    /\ DetectCall
    /\ UNCHANGED <<objVars, multiVars, apiVars, frame_number, videoVars,
                   serviceVars>>

SpecDetect == InitDetect /\ [][NextDetect]_vars

NextHttp ==
    /\ \/ PostDetect
       \/ PostDetectPlayers
       \/ PostDetectBall
    /\ UNCHANGED <<objVars, multiVars, apiVars, frame_number, videoVars,
                   serviceVars>>

SpecHttp == Init /\ [][NextHttp]_vars

\* a step of the background task of request r, in the whole state
TaskRuns(r) ==
    /\ TaskStep(r)
    /\ UNCHANGED <<objVars, multiVars, apiVars, frame_number, videoVars,
                   detectVars>>

NextService ==
    \/ /\ \/ Tick
          \/ GetTrackingStatus
          \/ \E r \in Jobs : PostTrack(r)
       /\ UNCHANGED <<objVars, multiVars, apiVars, frame_number, videoVars,
                      detectVars>>
    \/ \E r \in Jobs : TaskRuns(r)

SpecService == Init /\ [][NextService]_vars

\* the service without its polls, which read processing_jobs and write
\* nothing a job reads
NextTasks ==
    \/ /\ \/ Tick
          \/ \E r \in Jobs : PostTrack(r)
       /\ UNCHANGED <<objVars, multiVars, apiVars, frame_number, videoVars,
                      detectVars>>
    \/ \E r \in Jobs : TaskRuns(r)

\* the thread pool runs every scheduled background task to its end
SpecServiceFair ==
    Init /\ [][NextTasks]_vars /\ \A r \in Jobs : WF_vars(TaskRuns(r))

\* ------------------------------------------------- claims on ObjectTracker
Range(f) == {f[i] : i \in DOMAIN f}

ObjTracks == Range(obj.tracker.tracks)

\* C1: over the updates since construction or the last reset, one track is
\* always emitted under one track_id, and one track_id is never emitted for
\* two tracks, so the id of a removed track is not given to a later track.
C1_IdsStableNeverReused ==
    \A p, q \in objSeen : (p[1] = q[1]) <=> (p[2] = q[2])

\* a track was emitted and has been removed, and a track created after it
\* is emitted now
C1_Witness ==
    \E p \in objSeen :
        /\ \A i \in DOMAIN objOut : objOut[i].track_id # p[2]
        /\ \E t \in ObjTracks : t.born[1] > p[1][1]

\* one update as seen by a track that is held before it: matched (miss 0),
\* or kept with one more miss while held(misses), or removed
MissStep(held(_)) ==
    objOp' = "update" =>
        \A t \in ObjTracks :
            LET kept == {u \in Range(obj'.tracker.tracks) : u.id = t.id}
            IN \/ \E u \in kept : u.miss = 0
               \/ held(t.miss + 1) /\ \E u \in kept : u.miss = t.miss + 1
               \/ ~held(t.miss + 1) /\ kept = {}

C2_HeldOriginal(misses) == misses < objCfg.lost_track_buffer
C2_HeldAmended(misses) == misses <= objCfg.lost_track_buffer

C7_EmptyFrameAges ==
    [][(objOp' = "update" /\ objDets' = <<>>) =>
          /\ obj'.tracker.frame_id = obj.tracker.frame_id + 1
          /\ \A t \in ObjTracks :
                t.miss < obj.tracker.track_buffer =>
                    \E u \in Range(obj'.tracker.tracks) :
                        u.id = t.id /\ u.miss = t.miss + 1
          /\ \A u \in Range(obj'.tracker.tracks) :
                \E t \in ObjTracks : u.id = t.id /\ u.miss = t.miss + 1]_vars

\* the last update was empty and a track aged by it is still held
C7_Witness ==
    /\ objOp = "update"
    /\ objDets = <<>>
    /\ \E t \in ObjTracks : t.miss >= 1

\* --------------------------------------------- claims on MultiClassTracker
BallEngine == tracker.ball_tracker.tracker
PlayerEngine == tracker.player_tracker.tracker
BallTracks == Range(BallEngine.tracks)

\* C3: in the ball tracker (lost_track_buffer 10), an update that hands it
\* no detection keeps every track that has at most 10 misses after it, in
\* state Lost, and removes the track that would have 11; no track is ever
\* held with more than 10 misses, and a track held with a miss is Lost.
C3_LostUntilBufferExceeded ==
    [][op' = "update" =>
          /\ \A u \in Range(BallEngine'.tracks) :
                u.miss <= 10 /\ (u.miss >= 1 => u.state = "Lost")
          /\ handed'.ball = <<>> =>
                \A t \in BallTracks :
                    LET kept == {u \in Range(BallEngine'.tracks) : u.id = t.id}
                    IN IF t.miss + 1 <= 10
                       THEN \E u \in kept :
                               u.miss = t.miss + 1 /\ u.state = "Lost"
                       ELSE kept = {}]_vars

\* after frame 11 the track created on frame 0 and last matched on frame 1
\* is held in state Lost with 10 misses
C3_Witness ==
    /\ tracker.ball_tracker.current_frame = 11
    /\ \E t \in BallTracks :
          t.born[1] = 1 /\ t.miss = 10 /\ t.state = "Lost"

\* C6: in the ball tracker (activation threshold 0.25) every track created
\* by an update comes from a detection with confidence above 0.25; a lone
\* detection at 0.27 that no held track matches creates a track; a
\* detection at 0.2 creates none and is only taken over by a track that was
\* already held and had no miss.
C6_ActivationThreshold ==
    [][op' = "update" =>
          /\ \A u \in Range(BallEngine'.tracks) :
                u.id >= BallEngine.next_id =>
                    /\ u.confidence > 25
                    /\ \E i \in DOMAIN handed'.ball :
                          handed'.ball[i].confidence = u.confidence
          /\ (/\ Len(handed'.ball) = 1
              /\ handed'.ball[1].confidence = 27
              /\ \A t \in BallTracks :
                    ~Matchable(t, [xyxy |-> ToPixels(handed'.ball[1].bbox)],
                               BallEngine.match_thresh))
                => \E u \in Range(BallEngine'.tracks) :
                       /\ u.id = BallEngine.next_id
                       /\ u.confidence = 27
                       /\ u.state = "Tentative"
          /\ \A u \in Range(BallEngine'.tracks) :
                (u.confidence = 20 /\ u.miss = 0) =>
                    \E t \in BallTracks : t.id = u.id /\ t.miss = 0]_vars

\* the ball track that a detection at 0.27 created has taken over a
\* detection at 0.2 in the second pass
C6_Witness ==
    /\ op = "update"
    /\ \E i \in DOMAIN handed.ball : handed.ball[i].confidence = 20
    /\ \E t \in BallTracks :
          t.confidence = 20 /\ t.miss = 0 /\ t.state = "Confirmed"

\* the detections of one class, in input order
RECURSIVE OfClass(_, _)
OfClass(detections, class_name) ==
    IF detections = <<>> THEN <<>>
    ELSE LET rest == OfClass(Tail(detections), class_name)
         IN IF Head(detections).class_name = class_name
            THEN <<Head(detections)>> \o rest
            ELSE rest

\* C8: one MultiClassTracker.update gives the player tracker exactly the
\* 'person' detections and the ball tracker exactly the 'sports ball'
\* detections, in input order, advances each of the two trackers by exactly
\* one update at the same frame number, and returns the two lists under the
\* keys 'players' and 'ball'.
C8_PartitionByClass ==
    [][op' = "update" =>
          /\ handed'.players = OfClass(args'.detections, "person")
          /\ handed'.ball = OfClass(args'.detections, "sports ball")
          /\ PlayerEngine'.frame_id = PlayerEngine.frame_id + 1
          /\ BallEngine'.frame_id = BallEngine.frame_id + 1
          /\ tracker'.player_tracker.current_frame =
                 IF args'.frame_number = None
                 THEN tracker.player_tracker.current_frame + 1
                 ELSE args'.frame_number
          /\ tracker'.ball_tracker.current_frame =
                 tracker'.player_tracker.current_frame
          /\ DOMAIN result' = {"players", "ball"}
          /\ \A i \in DOMAIN result'.players :
                result'.players[i].frame_number =
                    tracker'.player_tracker.current_frame
          /\ \A i \in DOMAIN result'.ball :
                result'.ball[i].frame_number =
                    tracker'.ball_tracker.current_frame
          /\ Len(result'.players) = Len(PlayerEngine'.tracks)
          /\ Len(result'.ball) = Len(BallEngine'.tracks)]_vars

\* an update whose list holds a detection of a third class before a ball:
\* the players' list is empty, the ball's is not, one detection is dropped
C8_Witness ==
    /\ op = "update"
    /\ Len(args.detections) = 2
    /\ args.detections[1].class_name \notin {"person", "sports ball"}
    /\ handed.players = <<>>
    /\ Len(handed.ball) = 1

\* C9: right after MultiClassTracker.reset both trackers hold no track,
\* their frame counters are 0 and their id counters are those of a new
\* tracker: the whole tracker equals a newly built one.
C9_ResetIsFresh ==
    op = "reset" =>
        /\ tracker = create_tracker(DefaultFrameRate, TRUE)
        /\ \A t \in {tracker.player_tracker, tracker.ball_tracker} :
              /\ t.tracker.tracks = <<>>
              /\ t.current_frame = 0
              /\ t.tracker.frame_id = 0
              /\ t.tracker.next_id = 1

\* a reset of a tracker whose two trackers had both issued ids
C9_Witness == op = "reset" /\ wasUsed

\* ----------------------------------------------------- claims on the jobs
\* the tracker a job would hold had it run alone: a new tracker, reset, then
\* the job's own updates in order
RECURSIVE Alone(_, _)
Alone(fed, frame_rate) ==
    IF fed = <<>>
    THEN [self |-> MultiReset(create_tracker(frame_rate, TRUE)),
          out |-> [players |-> <<>>, ball |-> <<>>]]
    ELSE MultiUpdate(Alone(SubSeq(fed, 1, Len(fed) - 1), frame_rate).self,
                     fed[Len(fed)].detections, fed[Len(fed)].frame_number)

Started(j) == jobs[j].pc \in {"built", "loop", "done"}

\* C10: every job that has built its pipeline holds a tracker object of its
\* own: not the module-level ones and not that of another job; and the
\* tracker of a job in its frame loop, with the ids it returned on the last
\* frame, is what the job's own frames alone produce on a new tracker.
C10_JobOwnsItsTracker ==
    \A j \in Jobs :
        Started(j) =>
            /\ jobs[j].job_pipeline.tracker
                   \notin {GlobalTrackerRef, GlobalPipelineRef}
            /\ \A k \in Jobs \ {j} :
                  Started(k) =>
                      jobs[k].job_pipeline.tracker # jobs[j].job_pipeline.tracker
            /\ jobs[j].pc \in {"loop", "done"} =>
                  /\ trackers[jobs[j].job_pipeline.tracker] =
                         Alone(jobs[j].fed, jobs[j].request.frameRate).self
                  /\ jobs[j].fed # <<>> =>
                         jobs[j].fed[Len(jobs[j].fed)].out =
                             Alone(jobs[j].fed, jobs[j].request.frameRate).out

\* two jobs are in their frame loops at once and each has been returned
\* track ids of its own
C10_Witness ==
    \E j, k \in Jobs :
        /\ j # k
        /\ jobs[j].pc = "loop" /\ jobs[k].pc = "loop"
        /\ jobs[j].fed # <<>> /\ jobs[k].fed # <<>>
        /\ jobs[j].fed[1].out.players # <<>>
        /\ jobs[k].fed[Len(jobs[k].fed)].out.players # <<>>


\* ------------------------------------------------ claims on process_video
Updates == seen.updates

\* C11: within one process_video run the tracker changes only in the loop's
\* pass over a frame, by one update per tracker (each engine advances by one
\* frame), and the frame numbers passed to tracker.update increase strictly
\* from call to call.
C11_UpdatesInFrameOrder ==
    /\ [](\A i, k \in DOMAIN Updates :
             i < k => Updates[i].frame_number < Updates[k].frame_number)
    /\ [][(pipe'.tracker # pipe.tracker /\ run.pc = "loop") =>
             /\ Len(Updates') = Len(Updates) + 1
             /\ pipe'.tracker.player_tracker.tracker.frame_id =
                    pipe.tracker.player_tracker.tracker.frame_id + 1
             /\ pipe'.tracker.ball_tracker.tracker.frame_id =
                    pipe.tracker.ball_tracker.tracker.frame_id + 1]_vars

\* two updates in one run, the second two frames after the first
C11_Witness ==
    /\ Len(Updates) = 2
    /\ Updates[1].frame_number = 0
    /\ Updates[2].frame_number = 2

\* the activation threshold and the miss buffer an ObjectTracker runs with
RunsWith(t) ==
    [track_activation_threshold |-> t.tracker.track_thresh,
     lost_track_buffer |-> t.tracker.track_buffer]

Configured ==
    [track_activation_threshold |-> pipe.config.track_activation_threshold,
     lost_track_buffer |-> pipe.config.lost_track_buffer]

\* C12: during a run, the trackers of the pipeline run with the activation
\* threshold and the miss buffer of the PipelineConfig the pipeline was given.
C12_ConfigReachesTrackers ==
    run.pc \in {"loop", "done"} =>
        /\ RunsWith(pipe.tracker.player_tracker) = Configured
        /\ RunsWith(pipe.tracker.ball_tracker) = Configured

\* C13: when max_frames is not None, process_video detects and tracks at
\* most max_frames frames and reports processedFrames <= max_frames.
C13_FrameCeiling ==
    pipe.config.max_frames # None =>
        /\ Len(Updates) <= pipe.config.max_frames
        /\ run.pc = "done" =>
              run.result.metadata.processedFrames <= pipe.config.max_frames

\* C14: the progress callback has been called once per processed frame and
\* not for skipped frames, with (processed_frames, total_frames): the first
\* argument counts 1, 2, ..., n and never exceeds the second.
C14_ProgressPerProcessedFrame ==
    /\ seen.progress =
           [i \in 1..run.processed_frames |-> <<i, run.total_frames>>]
    /\ Len(seen.progress) = Len(Updates)
    /\ \A i \in DOMAIN seen.progress : seen.progress[i][1] <= seen.progress[i][2]

\* a finished run that skipped a frame between two processed ones
C14_Witness ==
    /\ run.pc = "done"
    /\ run.position = 3
    /\ seen.progress = <<<<1, 2>>, <<2, 2>>>>

\* C15: a running job can be cancelled cooperatively: once cancellation has
\* been requested, no further frame is detected or tracked.
C15_CancelStopsTheLoop ==
    \A i \in DOMAIN Updates : ~Updates[i].cancelled

\* ------------------------------------------- claims on a failing update
FreshObj ==
    ObjectTracker(objCfg.track_activation_threshold, objCfg.lost_track_buffer,
                  objCfg.minimum_matching_threshold, DefaultFrameRate)

\* C16: when the engine raises inside ObjectTracker.update the call returns
\* an empty list without raising, the tracks and the id counter are the ones
\* before the call, a reset still gives a fresh tracker, and the rows of
\* later updates still name each track by one id of its own.
C16_FailureIsContained ==
    /\ [](\A p, q \in objSeen : (p[1] = q[1]) <=> (p[2] = q[2]))
    /\ [][objOp' \in {"failed", "raised"} =>
             /\ objOp' = "failed"
             /\ objOut' = <<>>
             /\ obj'.tracker.tracks = obj.tracker.tracks
             /\ obj'.tracker.next_id = obj.tracker.next_id
             /\ ObjectReset(obj') = FreshObj]_vars

\* an update with detections has just failed on a tracker that holds a track
C16_Witness ==
    /\ objOp = "failed"
    /\ objDets # <<>>
    /\ objOut = <<>>
    /\ \E t \in ObjTracks : t.miss = 0

\* ------------------------------------------------- claims on the detector
WellFormed(frame) == frame.kind = "ndarray" /\ Len(frame.shape) >= 2

\* C17: detect fails with an error, without calling the model, for every
\* frame that is None, is not a numpy array or has fewer than 2 dimensions,
\* whatever detect_players and detect_ball are.
C17_InvalidFrameFails ==
    (detected.outcome # "none" /\ ~WellFormed(detected.frame)) =>
        /\ detected.outcome = "ValueError"
        /\ ~detected.predict.called

\* ------------------------------------------- claims on the emitted rows
\* C18: the list an update returns holds exactly one TrackedDetection for
\* every track the engine holds after that frame (matched, newly created or
\* continued without a match) and none for any other track; no two entries
\* share a track_id and every entry carries the call's frame number.
C18_OneRowPerLiveTrack ==
    [][objOp' = "update" =>
          /\ \A t \in Range(obj'.tracker.tracks) :
                Cardinality({i \in DOMAIN objOut' :
                                objOut'[i].track_id = <<"track", t.id>>}) = 1
          /\ \A i \in DOMAIN objOut' :
                \E t \in Range(obj'.tracker.tracks) :
                    objOut'[i].track_id = <<"track", t.id>>
          /\ \A i, k \in DOMAIN objOut' :
                objOut'[i].track_id = objOut'[k].track_id => i = k
          /\ \A i \in DOMAIN objOut' :
                objOut'[i].frame_number \in {frame_number, obj.current_frame + 1}
          /\ \A i \in DOMAIN objOut' :
                objOut'[i].frame_number = obj'.current_frame]_vars

\* an update returned two rows, one of them for a track it did not match
C18_Witness ==
    /\ objOp = "update"
    /\ Len(objOut) = 2
    /\ \E t \in ObjTracks : t.miss > 0
    /\ \E t \in ObjTracks : t.miss = 0

\* ------------------------------------------- claims on the run's result
PlayerIds(update) ==
    {update.out.players[k].track_id : k \in DOMAIN update.out.players}

EmittedIds == UNION {PlayerIds(Updates[i]) : i \in DOMAIN Updates}

\* the frame numbers of the updates that emitted id, in call order
RECURSIVE FramesOf(_, _)
FramesOf(updates, id) ==
    IF updates = <<>> THEN <<>>
    ELSE (IF id \in PlayerIds(Head(updates))
          THEN <<Head(updates).frame_number>> ELSE <<>>)
         \o FramesOf(Tail(updates), id)

BallRows ==
    LET RECURSIVE rows(_)
        rows(updates) ==
            IF updates = <<>> THEN <<>>
            ELSE Head(updates).out.ball \o rows(Tail(updates))
    IN rows(Updates)

\* C19: when process_video has returned, result.tracks holds one TrackData
\* per distinct player track id emitted during the run and no other; each
\* has a non-empty frames list with one entry per processed frame on which
\* the id was emitted, in strictly increasing frameNumber order;
\* tracksCount = len(tracks) and ballDetectionsCount = len(ball), one entry
\* per emitted ball row.
C19_ResultHoldsEveryTrack ==
    run.pc = "done" =>
        LET tracks == run.result.tracks
            meta == run.result.metadata
        IN /\ {tracks[i].trackId : i \in DOMAIN tracks} = EmittedIds
           /\ \A i, k \in DOMAIN tracks :
                 tracks[i].trackId = tracks[k].trackId => i = k
           /\ \A i \in DOMAIN tracks :
                 /\ tracks[i].frames # <<>>
                 /\ [n \in DOMAIN tracks[i].frames |->
                        tracks[i].frames[n].frameNumber]
                        = FramesOf(Updates, tracks[i].trackId)
                 /\ \A n, p \in DOMAIN tracks[i].frames :
                        n < p => tracks[i].frames[n].frameNumber
                                    < tracks[i].frames[p].frameNumber
           /\ meta.tracksCount = Len(tracks)
           /\ meta.ballDetectionsCount = Len(run.result.ball)
           /\ Len(run.result.ball) = Len(BallRows)

\* a finished run with two player tracks, one of them seen on two frames,
\* and a ball row
C19_Witness ==
    /\ run.pc = "done"
    /\ Len(run.result.tracks) = 2
    /\ Len(run.result.tracks[1].frames) = 2
    /\ run.result.metadata.ballDetectionsCount > 0

Stride == pipe.config.skip_frames + 1

\* the frame ceiling of the run: max_frames when it is set, and never more
\* than the frame count the video reports
Ceiling ==
    IF pipe.config.max_frames # None
    THEN Min(run.frame_count, pipe.config.max_frames)
    ELSE run.frame_count

\* C20: with skip_frames = s the run processes exactly the frames whose
\* 0-based index in the video is a multiple of s + 1, in order, until the
\* video ends or the frame ceiling is reached, and passes that index to the
\* tracker as the frame number.
C20_EveryStrideFrame ==
    run.pc \in {"loop", "done"} =>
        /\ \A i \in DOMAIN Updates :
              /\ Updates[i].index = (i - 1) * Stride
              /\ Updates[i].frame_number = Updates[i].index
        /\ Len(Updates) <= Ceiling
        /\ run.pc = "done" =>
              \/ Len(Updates) = Ceiling
              \/ /\ run.position = run.video_frames
                 /\ Len(Updates) =
                        Cardinality({n \in 0..(run.video_frames - 1) :
                                        n % Stride = 0})

\* ------------------------------------- claims on the detector in the loop
\* C21: in process_video the detector is called exactly once for each
\* processed frame, before that frame's tracker update, never for a skipped
\* frame, and a call that failed is the last one: it is not retried.
C21_DetectOncePerProcessedFrame ==
    /\ \A i \in DOMAIN Updates :
          /\ i \in DOMAIN seen.detects
          /\ seen.detects[i].index = Updates[i].index
          /\ seen.detects[i].updates_before = i - 1
          /\ ~seen.detects[i].failed
    /\ \A i, k \in DOMAIN seen.detects :
          seen.detects[i].index = seen.detects[k].index => i = k
    /\ \A i \in DOMAIN seen.detects :
          /\ ~Skipped(pipe.config, seen.detects[i].index)
          /\ seen.detects[i].failed =>
                i = Len(seen.detects) /\ run.pc = "raised"
    /\ Len(seen.detects) =
          Len(Updates) + (IF run.pc = "raised" THEN 1 ELSE 0)

\* frame 0 was detected and tracked, frame 1 skipped, and the detection of
\* frame 2 failed
C21_Witness ==
    /\ run.pc = "raised"
    /\ Len(Updates) = 1
    /\ Len(seen.detects) = 2
    /\ seen.detects[2].index = 2

\* ------------------------------------------------ claims on the service
Accepted(r) == tasks[r].pc # "idle"

\* the status a poll of request r's job id would see
StatusOf(r) ==
    IF tasks[r].job_id \in DOMAIN processing_jobs THEN Entry(r).status
    ELSE "none"

\* C24: every job accepted by POST /track eventually leaves 'processing'
\* and reaches 'completed' or 'error', and every exception raised while
\* processing brings the job to 'error'.
C24_JobsEnd ==
    \A r \in Jobs :
        /\ Accepted(r) ~> (StatusOf(r) \in {"completed", "error"})
        /\ (tasks[r].pc = "raised") ~> (StatusOf(r) = "error")

\* a job whose detection raised has ended with status 'error' and the
\* exception's text
C24_Witness ==
    \E r \in Jobs :
        /\ tasks[r].pc = "done"
        /\ tasks[r].exc = "RuntimeError"
        /\ Entry(r).status = "error"
        /\ Entry(r).error = "RuntimeError"

\* C22: under any interleaving of POST /track, background jobs and polls, what
\* a poll of a job id answers has a result exactly when the status is
\* 'completed' and an error exactly when the status is 'error'.
C22_StatusDecidesResult ==
    polled.code = 200 =>
        /\ (~polled.result_null) <=> (polled.status = "completed")
        /\ (~polled.error_null) <=> (polled.status = "error")

\* C23: any two accepted POST /track requests have different job ids.
C23_DistinctJobIds ==
    \A r1, r2 \in Jobs :
        (r1 # r2 /\ Accepted(r1) /\ Accepted(r2)) =>
            tasks[r1].job_id # tasks[r2].job_id

\* ------------------------------------- claims on the detect endpoints
\* the request's image data cannot be decoded into a frame
Undecodable ==
    IF response.endpoint = "/detect" THEN Imdecode(response.image) = NoFrame
    ELSE response.image = "not_base64" \/ JsonFrame(response.image) = NoFrame

\* C25: POST /detect, /detect/players and /detect/ball answer image data that
\* cannot be decoded with status 400, and answer 500 only when the detection
\* itself failed.
C25_UndecodableIs400 ==
    response.endpoint # "none" =>
        /\ Undecodable => response.code = 400
        /\ response.code = 500 => response.outcome \notin {"none", "returned"}

\* C26: after every POST /detect request, whether its detection succeeded or
\* failed, the shared detector's conf_threshold is what it was before the
\* request.
C26_ThresholdRestored ==
    response.endpoint = "/detect" =>
        detector.conf_threshold = response.before

====
